---------------------------- MODULE Spec2Model ----------------------------
(***************************************************************************)
(* Model of the container entry orchestrator of toolbox:                   *)
(* src/src/cmd/enter.go, functions enter and enterContainer.               *)
(*                                                                         *)
(* One entry attempt is a sequential flow.  Every call to an external      *)
(* collaborator (the container engine, the prompt, the file system) is a   *)
(* suspension point: the model has one action per such call, the result of *)
(* the call is chosen nondeterministically, and the call is appended to    *)
(* `trace` in program order when it returns.  While the attempt waits in   *)
(* time.Sleep (pc = "Sleep") the sleep is not yet in `trace` and i is not  *)
(* yet incremented.  While it waits in 'podman exec' (pc = "exec") the     *)
(* session is running: the push escape sequence is written, the exec is    *)
(* not yet in `trace`.                                                     *)
(***************************************************************************)
EXTENDS Integers, Sequences, FiniteSets, TLC

VARIABLES
    caller,             \* which command started the attempt: "enter" or "run"
    args,               \* positional arguments of the enter command
    enterFlags,         \* enterFlags.container, enterFlags.release
    rootFlags,          \* rootFlags.assumeYes
    pc,                 \* position of the attempt in enter / enterContainer
    container,          \* enterContainer: container (reassigned on substitution)
    defaultContainer,   \* enterContainer: defaultContainer
    image,              \* enterContainer: image
    release,            \* enterContainer: release
    command,            \* enterContainer: command (reassigned on fallback)
    emitEscapeSequence, \* enterContainer: emitEscapeSequence
    fallbackToBash,     \* enterContainer: fallbackToBash
    pedantic,           \* enterContainer: pedantic
    containers,         \* enterContainer: result of listContainers()
    entryPoint,         \* enterContainer: entryPoint
    entryPointPID,      \* enterContainer: entryPointPID
    i,                  \* enterContainer: loop counter of the initialization wait
    execArgs,           \* enterContainer: execArgs, the arguments of 'podman exec'
    exitCode,           \* enterContainer: exit code of 'podman exec'
    runErr,             \* enterContainer: err returned by shell.RunWithExitCode
    ret,                \* what the attempt returned to its caller
    trace               \* the external calls made so far, in order

inputs == <<caller, args, enterFlags, rootFlags>>
params == <<defaultContainer, image, release, emitEscapeSequence,
            fallbackToBash, pedantic>>
locals == <<containers, entryPoint, entryPointPID, i, execArgs, exitCode,
           runErr>>
vars == <<caller, args, enterFlags, rootFlags, pc, container, defaultContainer,
          image, release, command, emitEscapeSequence, fallbackToBash,
          pedantic, containers, entryPoint, entryPointPID, i, execArgs,
          exitCode, runErr, ret, trace>>

---------------------------------------------------------------------------
(* Bounds and input sets *)

\* Largest number of containers listContainers() reports.
MaxContainers == 2

\* Names the engine may report for existing containers, in listing order.
ExistingNames == <<"work", "old-box", "scratch", "spare">>

\* Values of the positional CONTAINER argument, when one is given; "" is
\* the empty argument of: toolbox enter "".
ArgNames == {"", "dev"}

\* Values of --container ("" is the flag's default).
FlagNames == {"", "box"}

\* Values of --release ("" is the flag's default).
ReleaseArgs == {"", "f33", "x"}

\* Exit codes of 'podman exec' that the model explores.
ExitCodes == {0, 1, 125, 126, 127, 130}

\* Entry point process names and PIDs the engine may report.
EntryPointNames == {"toolbox", "sleep"}
EntryPointPIDs == {-1, 0, 7}

\* Outcome of a lookup that returned an error.
LookupError == "<error>"
HostIDs == {"fedora", "rhel", LookupError}
HostVariantIDs == {"silverblue", "workstation", "server", LookupError}

\* Package-level values of the cmd package that enterContainer reads.
currentUser == [Username |-> "user", Uid |-> "1000"]
workingDirectory == "/home/user/src"
logLevelString == "error"
envOptions == <<"--env", "TERM=xterm">>

---------------------------------------------------------------------------
(* Values *)

\* An external call and its answer: the name of the call, the container it
\* targets, its other string arguments, a numeric argument or answer, and
\* the answer.
Call(op, c, a, n, r) == [op |-> op, container |-> c, args |-> a, n |-> n, result |-> r]

NoRet == [status |-> "running", kind |-> "", container |-> "", detail |-> ""]
\* return nil
Nil == [status |-> "nil", kind |-> "", container |-> "", detail |-> ""]
\* return an error; kind names the message, container and detail its operands
Error(kind, c, d) == [status |-> "error", kind |-> kind, container |-> c, detail |-> d]
\* panic(detail)
Panic(d) == [status |-> "panic", kind |-> "panic", container |-> "", detail |-> d]

Ops(t) == {t[k].op : k \in 1..Len(t)}
Count(t, op) == Cardinality({k \in 1..Len(t) : t[k].op = op})
\* The place in t of the call op, for a call that t holds once.
Index(t, op) == CHOOSE k \in 1..Len(t) : t[k].op = op


---------------------------------------------------------------------------
(* Collaborators of the utils package that enter calls *)

\* utils.ContainerNameRegexp, the naming grammar that the error message of
\* line 96 quotes: the name starts with an alphanumeric and goes on with
\* alphanumerics and "_", ".", "-".  The empty name does not match.
ContainerNameRegexp(name) == name \in {"dev", "box", "test-container"}

\* utils.IsContainerNameValid: the answers (bool, error) it may give for a
\* name.  The boolean says whether the name matches the grammar; which
\* names it returns an error for is not decided here, so either is
\* possible for every name.
IsContainerNameValid(name) ==
    [matched : {ContainerNameRegexp(name)}, err : BOOLEAN]

\* utils.ParseRelease: the normalized release token, "" when it does not parse.
ParseRelease(r) ==
    CASE r = "f33" -> "33"
      [] r = "33" -> "33"
      [] OTHER -> ""

\* utils.ResolveContainerAndImageNames(container, "", release): the defaults
\* are derived from the host (Fedora 32 here) where the caller gave none.
ResolveContainerAndImageNames(c, r) ==
    LET rel == IF r = "" THEN "32" ELSE r
        img == IF rel = "32" THEN "fedora-toolbox:32" ELSE "fedora-toolbox:33"
        dflt == IF rel = "32" THEN "fedora-toolbox-32" ELSE "fedora-toolbox-33"
    IN  [container |-> IF c = "" THEN dflt ELSE c, image |-> img, release |-> rel]

---------------------------------------------------------------------------
(* enter: lines 65-156 *)

\* The container name the caller supplied: the positional argument takes
\* precedence over --container; "" when neither was given.
SuppliedContainer(a, flags) ==
    IF Len(a) # 0 THEN a[1]
    ELSE IF flags.container # "" THEN flags.container
    ELSE ""

\* Which argument the name came from, for the error message.
containerArg(a, flags) ==
    IF Len(a) # 0 THEN "CONTAINER"
    ELSE IF flags.container # "" THEN "--container"
    ELSE ""

\* nonDefaultContainer: the caller named a container or a release.
nonDefaultContainer(a, flags) ==
    SuppliedContainer(a, flags) # "" \/ flags.release # ""

\* emitEscapeSequence as enter computes it from the host identity.
HostEmitsEscapeSequence(hostID, hostVariantID) ==
    hostID = "fedora" /\ (hostVariantID = "silverblue" \/ hostVariantID = "workstation")

Init ==
    /\ caller \in {"enter", "run"}
    /\ args \in {<<>>} \cup {<<n>> : n \in ArgNames}
    /\ enterFlags \in [container : FlagNames, release : ReleaseArgs]
    /\ caller = "run" => (args = <<>> /\ enterFlags = [container |-> "", release |-> ""])
    /\ rootFlags \in [assumeYes : BOOLEAN]
    /\ pc = "start"
    /\ container = ""
    /\ defaultContainer = FALSE
    /\ image = ""
    /\ release = ""
    /\ command = <<>>
    /\ emitEscapeSequence = FALSE
    /\ fallbackToBash = FALSE
    /\ pedantic = FALSE
    /\ containers = <<>>
    /\ entryPoint = ""
    /\ entryPointPID = 0
    /\ i = 0
    /\ execArgs = <<>>
    /\ exitCode = 0
    /\ runErr = FALSE
    /\ ret = NoRet
    /\ trace = <<>>

\* The attempt ends here with result r.
Finish(r) ==
    /\ pc' = "done"
    /\ ret' = r

\* enter run inside a container: lines 66-76.
enterForward ==
    /\ pc = "start"
    /\ caller = "enter"
    /\ \E inToolbox \in BOOLEAN, forwarded \in BOOLEAN :
         IF ~inToolbox THEN
              /\ Finish(Error("NotAToolboxContainer", "", ""))
              /\ trace' = trace
         ELSE /\ trace' = Append(trace, Call("ForwardToHost", "", <<>>, 0,
                                             IF forwarded THEN "ok" ELSE "error"))
              /\ IF ~forwarded THEN Finish(Error("ForwardToHostFailed", "", ""))
                 ELSE Finish(Nil)
    /\ UNCHANGED <<inputs, container, command, params, locals>>

\* enter run on the host: lines 78-156, up to the call of enterContainer.
enter ==
    /\ pc = "start"
    /\ caller = "enter"
    /\ LET supplied == SuppliedContainer(args, enterFlags)
           parsed == ParseRelease(enterFlags.release)
           names == ResolveContainerAndImageNames(supplied, parsed)
       IN
       \* lines 90-101: only a name that is not empty is checked, and of the
       \* answer only the error is read
       \E valid \in IsContainerNameValid(supplied) :
       IF supplied # "" /\ valid.err THEN
            /\ Finish(Error("InvalidContainerName", supplied, containerArg(args, enterFlags)))
            /\ UNCHANGED <<container, command, params>>
       ELSE IF enterFlags.release # "" /\ parsed = "" THEN
            /\ Finish(Error("InvalidRelease", "", enterFlags.release))
            /\ UNCHANGED <<container, command, params>>
       ELSE \E resolved \in BOOLEAN, userShell \in {"", "/bin/zsh"},
               hostID \in HostIDs, hostVariantID \in HostVariantIDs :
            IF ~resolved THEN
                 /\ Finish(Error("ResolveFailed", supplied, ""))
                 /\ UNCHANGED <<container, command, params>>
            ELSE IF userShell = "" THEN
                 /\ Finish(Error("NoUserShell", "", ""))
                 /\ UNCHANGED <<container, command, params>>
            ELSE IF hostID = LookupError THEN
                 /\ Finish(Error("NoHostID", "", ""))
                 /\ UNCHANGED <<container, command, params>>
            ELSE IF hostVariantID = LookupError THEN
                 /\ Finish(Error("NoHostVariantID", "", ""))
                 /\ UNCHANGED <<container, command, params>>
            ELSE /\ pc' = "enterContainer"
                 /\ container' = names.container
                 /\ defaultContainer' = ~nonDefaultContainer(args, enterFlags)
                 /\ image' = names.image
                 /\ release' = names.release
                 /\ command' = <<userShell, "-l">>
                 /\ emitEscapeSequence' = HostEmitsEscapeSequence(hostID, hostVariantID)
                 /\ fallbackToBash' = TRUE
                 /\ pedantic' = FALSE
                 /\ ret' = ret
    /\ UNCHANGED <<inputs, locals, trace>>

\* Another command of the package (run) calls enterContainer directly, with
\* its own choice of the parameters: lines 158-162.
callEnterContainer ==
    /\ pc = "start"
    /\ caller = "run"
    /\ pc' = "enterContainer"
    /\ container' = "test-container"
    /\ defaultContainer' \in BOOLEAN
    /\ \E names \in {[image |-> "", release |-> ""],
                     [image |-> "fedora-toolbox:32", release |-> ""],
                     [image |-> "fedora-toolbox:32", release |-> "32"]} :
           image' = names.image /\ release' = names.release
    /\ command' = <<"echo", "Hello World">>
    /\ emitEscapeSequence' \in BOOLEAN
    /\ fallbackToBash' \in BOOLEAN
    /\ pedantic' \in BOOLEAN
    /\ UNCHANGED <<inputs, locals, ret, trace>>

---------------------------------------------------------------------------
(* enterContainer: lines 158-372 *)

\* Lines 164-172: the panic message for a missing image or release, "" if none.
MissingArgument(ped, img, rel) ==
    IF ped THEN ""
    ELSE IF img = "" THEN "image not specified"
    ELSE IF rel = "" THEN "release not specified"
    ELSE ""

\* Mutant of FailIfMissing: the pedantic check is lost.
FailIfMissing_Never(ped) == FALSE

\* Line 179: a missing container is fatal at once.
FailIfMissing(ped) == ped

\* Mutant of FallbackStrategy: the defaultContainer test is inverted.
FallbackStrategy_NegatedDefault(containersCount, dflt) ==
    IF containersCount = 0 THEN "create"
    ELSE IF containersCount = 1 /\ ~dflt THEN "substitute"
    ELSE "fail"

\* Mutant of FallbackStrategy: the first container is taken whenever any
\* exists and the request is the default one.
FallbackStrategy_AnyCount(containersCount, dflt) ==
    IF containersCount = 0 THEN "create"
    ELSE IF containersCount >= 1 /\ dflt THEN "substitute"
    ELSE "fail"

\* Lines 193, 216, 223: what to do about a missing container, given the
\* number of containers that exist.
FallbackStrategy(containersCount, dflt) ==
    IF containersCount = 0 THEN "create"
    ELSE IF containersCount = 1 /\ dflt THEN "substitute"
    ELSE "fail"

\* Mutant of promptForCreate: assume-yes is ignored.
promptForCreate_Always(assumeYes) == TRUE

\* Lines 195-200: promptForCreate.
promptForCreate(assumeYes) == ~assumeYes

\* Mutant of shouldCreateContainer: the answer is ignored.
shouldCreateContainer_Always(assumeYes, answer) == TRUE

\* Mutant of shouldCreateContainer: assume-yes does not set it.
shouldCreateContainer_IgnoresAssumeYes(assumeYes, answer) == answer

\* Lines 194-205: shouldCreateContainer, given the answer to the prompt.
shouldCreateContainer(assumeYes, answer) ==
    IF assumeYes THEN TRUE ELSE answer

\* Line 213: the identity handed to createContainer.
CreateArguments(c, img, rel) == <<c, img, rel>>

\* Line 219: the container entered instead of the missing default one.
SubstituteContainer(listed) == listed[1].Names[1]

\* Mutant of CheckEntryPoint: the PID is checked before the name.
CheckEntryPoint_PidFirst(name, pid) ==
    IF pid <= 0 THEN "InvalidEntryPoint"
    ELSE IF name # "toolbox" THEN "UnsupportedContainer"
    ELSE ""

\* Mutant of CheckEntryPoint: the PID is not validated.
CheckEntryPoint_NoPidCheck(name, pid) ==
    IF name # "toolbox" THEN "UnsupportedContainer"
    ELSE ""

\* Lines 248-259: validation of the entry point; "" when it is acceptable.
CheckEntryPoint(name, pid) ==
    IF name # "toolbox" THEN "UnsupportedContainer"
    ELSE IF pid <= 0 THEN "InvalidEntryPoint"
    ELSE ""

\* Line 272: initializedTimeout, in seconds.
initializedTimeout == 25

\* Mutant of TimedOut: the wait gives up one iteration early.
TimedOut_OneEarly(n) == n + 1 = initializedTimeout

\* Line 274: the wait gives up.
TimedOut(n) == n = initializedTimeout

\* Mutant of AvailableCommand: the fallback shell is not a login shell.
AvailableCommand_BareBash(cmd, present, fallback) ==
    IF present THEN cmd
    ELSE IF fallback THEN <<"/bin/bash">>
    ELSE <<>>

\* Lines 283-295: the command to execute, <<>> when the attempt fails instead.
AvailableCommand(cmd, present, fallback) ==
    IF present THEN cmd
    ELSE IF fallback THEN <<"/bin/bash", "-l">>
    ELSE <<>>

\* Mutant of ExecArgs: the detach keys are disabled whatever the version of
\* the engine is.
ExecArgs_AlwaysDetach(detach, c, cmd) ==
    <<"--log-level", logLevelString, "exec", "--detach-keys", "">>
    \o <<"--interactive", "--tty",
         "--user", currentUser.Username,
         "--workdir", workingDirectory>>
    \o envOptions
    \o <<c, "capsh", "--caps=", "--", "-c", "exec \"$@\"", "/bin/sh">>
    \o cmd

\* Lines 299-330: execArgs.
ExecArgs(detach, c, cmd) ==
    <<"--log-level", logLevelString, "exec">>
    \o (IF detach THEN <<"--detach-keys", "">> ELSE <<>>)
    \o <<"--interactive", "--tty",
         "--user", currentUser.Username,
         "--workdir", workingDirectory>>
    \o envOptions
    \o <<c, "capsh", "--caps=", "--", "-c", "exec \"$@\"", "/bin/sh">>
    \o cmd

\* Lines 332-334: the push escape sequence written before the exec.
PushSequence(emit, c) ==
    IF emit THEN <<Call("push", c, <<currentUser.Uid>>, 0, "")>> ELSE <<>>

\* Mutant of PopSequence: the pop sequence is never written.
PopSequence_Never(emit) == <<>>

\* Lines 344-346: the pop escape sequence written after the exec.
PopSequence(emit) ==
    IF emit THEN <<Call("pop", "", <<currentUser.Uid>>, 0, "")>> ELSE <<>>

\* Line 358: the exit codes after which the working directory is probed.
ProbesWorkingDirectory(code) == code = 127

\* Mutant of Classify: the two outcomes of exit code 127 are exchanged.
Classify_SwappedProbe(code, err, pathPresent, c, cmd) ==
    CASE code = 0 -> IF err THEN Panic("unexpected error: 'podman exec' finished successfully")
                     ELSE Nil
      [] code = 125 -> Error("EngineInvocationFailed", c, "")
      [] code = 126 -> Error("CommandInvocationFailed", c, cmd[1])
      [] code = 127 -> IF pathPresent
                       THEN Error("PathNotFoundInContainer", c, workingDirectory)
                       ELSE Error("CommandNotFound", c, cmd[1])
      [] OTHER -> Nil

\* Mutant of Classify: exit code 0 returns the reported error instead of
\* panicking.
Classify_NoPanic(code, err, pathPresent, c, cmd) ==
    CASE code = 0 -> IF err THEN Error("RunFailed", c, "") ELSE Nil
      [] code = 125 -> Error("EngineInvocationFailed", c, "")
      [] code = 126 -> Error("CommandInvocationFailed", c, cmd[1])
      [] code = 127 -> IF ~pathPresent
                       THEN Error("PathNotFoundInContainer", c, workingDirectory)
                       ELSE Error("CommandNotFound", c, cmd[1])
      [] OTHER -> Nil

\* Mutant of Classify: exit codes 125 and 126 are errors only when
\* RunWithExitCode reported one.
Classify_OnlyReportedErrors(code, err, pathPresent, c, cmd) ==
    CASE code = 0 -> IF err THEN Panic("unexpected error: 'podman exec' finished successfully")
                     ELSE Nil
      [] code = 125 -> IF err THEN Error("EngineInvocationFailed", c, "") ELSE Nil
      [] code = 126 -> IF err THEN Error("CommandInvocationFailed", c, cmd[1]) ELSE Nil
      [] code = 127 -> IF ~pathPresent
                       THEN Error("PathNotFoundInContainer", c, workingDirectory)
                       ELSE Error("CommandNotFound", c, cmd[1])
      [] OTHER -> Nil

\* Mutant of Classify: outside 0, 125, 126 and 127 the error reported by
\* RunWithExitCode is returned.
Classify_ReturnsReportedError(code, err, pathPresent, c, cmd) ==
    CASE code = 0 -> IF err THEN Panic("unexpected error: 'podman exec' finished successfully")
                     ELSE Nil
      [] code = 125 -> Error("EngineInvocationFailed", c, "")
      [] code = 126 -> Error("CommandInvocationFailed", c, cmd[1])
      [] code = 127 -> IF ~pathPresent
                       THEN Error("PathNotFoundInContainer", c, workingDirectory)
                       ELSE Error("CommandNotFound", c, cmd[1])
      [] OTHER -> IF err THEN Error("RunFailed", c, "") ELSE Nil

\* Lines 348-371: the result of the attempt from the exit code of
\* 'podman exec', the error reported with it and the probe's answer.
Classify(code, err, pathPresent, c, cmd) ==
    CASE code = 0 -> IF err THEN Panic("unexpected error: 'podman exec' finished successfully")
                     ELSE Nil
      [] code = 125 -> Error("EngineInvocationFailed", c, "")
      [] code = 126 -> Error("CommandInvocationFailed", c, cmd[1])
      [] code = 127 -> IF ~pathPresent
                       THEN Error("PathNotFoundInContainer", c, workingDirectory)
                       ELSE Error("CommandNotFound", c, cmd[1])
      [] OTHER -> Nil

\* Lines 164-182: the argument checks and podman.ContainerExists.
containerExists ==
    /\ pc = "enterContainer"
    /\ IF MissingArgument(pedantic, image, release) # "" THEN
            /\ Finish(Panic(MissingArgument(pedantic, image, release)))
            /\ trace' = trace
       ELSE \E exists \in BOOLEAN :
            /\ trace' = Append(trace, Call("ContainerExists", container, <<>>, 0,
                                           IF exists THEN "found" ELSE "missing"))
            /\ IF exists THEN pc' = "callFlatpakSessionHelper" /\ ret' = ret
               ELSE IF FailIfMissing(pedantic)
                    THEN Finish(Error("ContainerNotFound", container, "create"))
               ELSE pc' = "listContainers" /\ ret' = ret
    /\ UNCHANGED <<inputs, container, command, params, locals>>

\* Lines 184-231: listContainers and the choice of the fallback.
listContainers ==
    /\ pc = "listContainers"
    /\ \E listed \in BOOLEAN, n \in 0..MaxContainers :
         IF ~listed THEN
              /\ trace' = Append(trace, Call("listContainers", "", <<>>, 0, "error"))
              /\ Finish(Error("ContainerNotFound", container, "create"))
              /\ UNCHANGED <<container, containers>>
         ELSE /\ trace' = Append(trace, Call("listContainers", "", <<>>, n, "listed"))
              /\ containers' = [k \in 1..n |-> [Names |-> <<ExistingNames[k]>>]]
              /\ LET strategy == FallbackStrategy(Len(containers'), defaultContainer) IN
                 CASE strategy = "create" ->
                        /\ IF promptForCreate(rootFlags.assumeYes)
                           THEN pc' = "AskForConfirmation" /\ ret' = ret
                           ELSE IF shouldCreateContainer(rootFlags.assumeYes, FALSE)
                                THEN pc' = "createContainer" /\ ret' = ret
                                ELSE Finish(Nil)
                        /\ UNCHANGED container
                   [] strategy = "substitute" ->
                        /\ container' = SubstituteContainer(containers')
                        /\ pc' = "callFlatpakSessionHelper"
                        /\ ret' = ret
                   [] OTHER ->
                        /\ Finish(Error("ContainerNotFound", container, "select"))
                        /\ UNCHANGED container
    /\ UNCHANGED <<inputs, command, params, entryPoint, entryPointPID, i,
                   execArgs, exitCode, runErr>>

\* Lines 202-211: the confirmation prompt.
AskForConfirmation ==
    /\ pc = "AskForConfirmation"
    /\ \E answer \in BOOLEAN :
         /\ trace' = Append(trace, Call("AskForConfirmation", "", <<>>, 0,
                                        IF answer THEN "yes" ELSE "no"))
         /\ IF shouldCreateContainer(rootFlags.assumeYes, answer)
            THEN pc' = "createContainer" /\ ret' = ret
            ELSE Finish(Nil)
    /\ UNCHANGED <<inputs, container, command, params, locals>>

\* Lines 213-215: createContainer.
createContainer ==
    /\ pc = "createContainer"
    /\ \E created \in BOOLEAN :
         /\ LET a == CreateArguments(container, image, release) IN
            trace' = Append(trace, Call("createContainer", a[1], <<a[2], a[3]>>, 0,
                                        IF created THEN "ok" ELSE "error"))
         /\ IF created THEN pc' = "callFlatpakSessionHelper" /\ ret' = ret
            ELSE Finish(Error("CreateFailed", container, ""))
    /\ UNCHANGED <<inputs, container, command, params, locals>>

\* Lines 234-236: callFlatpakSessionHelper.
callFlatpakSessionHelper ==
    /\ pc = "callFlatpakSessionHelper"
    /\ \E called \in BOOLEAN :
         /\ trace' = Append(trace, Call("callFlatpakSessionHelper", container, <<>>, 0,
                                        IF called THEN "ok" ELSE "error"))
         /\ IF called THEN pc' = "startContainer" /\ ret' = ret
            ELSE Finish(Error("FlatpakSessionHelperFailed", container, ""))
    /\ UNCHANGED <<inputs, container, command, params, locals>>

\* Lines 238-241: startContainer.
startContainer ==
    /\ pc = "startContainer"
    /\ \E started \in BOOLEAN :
         /\ trace' = Append(trace, Call("startContainer", container, <<>>, 0,
                                        IF started THEN "ok" ELSE "error"))
         /\ IF started THEN pc' = "getEntryPointAndPID" /\ ret' = ret
            ELSE Finish(Error("StartFailed", container, ""))
    /\ UNCHANGED <<inputs, container, command, params, locals>>

\* Lines 243-271: getEntryPointAndPID, the validation of its answer and
\* utils.GetRuntimeDirectory.
getEntryPointAndPID ==
    /\ pc = "getEntryPointAndPID"
    /\ \E queried \in BOOLEAN, name \in EntryPointNames, pid \in EntryPointPIDs,
          haveRuntimeDirectory \in BOOLEAN :
         IF ~queried THEN
              /\ trace' = Append(trace, Call("getEntryPointAndPID", container, <<>>, 0,
                                             "error"))
              /\ Finish(Error("EntryPointQueryFailed", container, ""))
              /\ UNCHANGED <<entryPoint, entryPointPID>>
         ELSE /\ trace' = Append(trace, Call("getEntryPointAndPID", container, <<name>>,
                                             pid, "ok"))
              /\ entryPoint' = name
              /\ entryPointPID' = pid
              /\ IF CheckEntryPoint(name, pid) # ""
                 THEN Finish(Error(CheckEntryPoint(name, pid), container, ""))
                 ELSE IF ~haveRuntimeDirectory
                 THEN Finish(Error("NoRuntimeDirectory", "", ""))
                 ELSE pc' = "waitInitialized" /\ ret' = ret
    /\ UNCHANGED <<inputs, container, command, params, containers, i,
                   execArgs, exitCode, runErr>>

\* Lines 272-278: one check of the initialization stamp
\* <runtime directory>/container-initialized-<entryPointPID>; when it is
\* absent and the wait has not timed out, time.Sleep is called and the
\* attempt waits in it.
waitInitialized ==
    /\ pc = "waitInitialized"
    /\ \E exists \in BOOLEAN :
         IF exists THEN
              /\ trace' = Append(trace, Call("PathExists", "", <<>>, entryPointPID,
                                             "present"))
              /\ pc' = "isCommandPresent"
              /\ UNCHANGED <<i, ret>>
         ELSE IF TimedOut(i) THEN
              /\ trace' = Append(trace, Call("PathExists", "", <<>>, entryPointPID,
                                             "absent"))
              /\ Finish(Error("InitializationTimeout", container, ""))
              /\ UNCHANGED i
         ELSE /\ trace' = Append(trace, Call("PathExists", "", <<>>, entryPointPID,
                                             "absent"))
              /\ pc' = "Sleep"
              /\ UNCHANGED <<i, ret>>
    /\ UNCHANGED <<inputs, container, command, params, containers, entryPoint,
                   entryPointPID, execArgs, exitCode, runErr>>

\* Lines 278 and 273: time.Sleep(time.Second) returns, i++, and the stamp
\* is checked again.
Sleep ==
    /\ pc = "Sleep"
    /\ trace' = Append(trace, Call("Sleep", "", <<>>, 1, ""))
    /\ i' = i + 1
    /\ pc' = "waitInitialized"
    /\ UNCHANGED <<inputs, container, command, params, containers, entryPoint,
                   entryPointPID, execArgs, exitCode, runErr, ret>>

\* Lines 283-295: isCommandPresent and the fallback to /bin/bash.
isCommandPresent ==
    /\ pc = "isCommandPresent"
    /\ \E present \in BOOLEAN :
         /\ trace' = Append(trace, Call("isCommandPresent", container, <<command[1]>>, 0,
                                        IF present THEN "present" ELSE "absent"))
         /\ LET cmd == AvailableCommand(command, present, fallbackToBash) IN
            IF cmd = <<>> THEN
                 /\ Finish(Error("CommandNotFound", container, command[1]))
                 /\ UNCHANGED command
            ELSE /\ command' = cmd
                 /\ pc' = "CheckVersion"
                 /\ ret' = ret
    /\ UNCHANGED <<inputs, container, params, locals>>

\* Lines 297-342: podman.CheckVersion answers, the argument vector is
\* built, the push escape sequence is written and shell.RunWithExitCode is
\* called; the attempt then waits in it for the session to end.
CheckVersion ==
    /\ pc = "CheckVersion"
    /\ \E detach \in BOOLEAN :
         /\ trace' = trace
                \o <<Call("CheckVersion", "", <<"1.8.1">>, 0,
                         IF detach THEN "true" ELSE "false")>>
                \o PushSequence(emitEscapeSequence, container)
         /\ execArgs' = ExecArgs(detach, container, command)
    /\ pc' = "exec"
    /\ UNCHANGED <<inputs, container, command, params, containers, entryPoint,
                   entryPointPID, i, exitCode, runErr, ret>>

\* Lines 342-371: shell.RunWithExitCode returns the exit code and err when
\* the session ends, the pop escape sequence is written and the exit code
\* is classified; exit code 127 goes on to probe the working directory,
\* every other exit code ends the attempt here.
exec ==
    /\ pc = "exec"
    /\ \E code \in ExitCodes, err \in BOOLEAN :
         /\ trace' = trace
                \o <<Call("exec", container, execArgs, code,
                         IF err THEN "error" ELSE "ok")>>
                \o PopSequence(emitEscapeSequence)
         /\ exitCode' = code
         /\ runErr' = err
         /\ IF ProbesWorkingDirectory(code)
            THEN pc' = "isPathPresent" /\ ret' = ret
            ELSE Finish(Classify(code, err, TRUE, container, command))
    /\ UNCHANGED <<inputs, container, command, params, containers, entryPoint,
                   entryPointPID, i, execArgs>>

\* Mutant of isPathPresent: after exit code 127 the exec is repeated once
\* with /bin/bash when the fallback is permitted.
isPathPresent_RetryWithBash ==
    /\ pc = "isPathPresent"
    /\ IF fallbackToBash /\ command # <<"/bin/bash", "-l">>
       THEN /\ command' = <<"/bin/bash", "-l">>
            /\ pc' = "CheckVersion"
            /\ UNCHANGED <<ret, trace>>
       ELSE /\ \E pathPresent \in BOOLEAN :
                 /\ trace' = Append(trace, Call("isPathPresent", container,
                                                <<workingDirectory>>, 0,
                                                IF pathPresent THEN "present" ELSE "absent"))
                 /\ Finish(Classify(exitCode, runErr, pathPresent, container, command))
            /\ UNCHANGED command
    /\ UNCHANGED <<inputs, container, params, locals>>

\* Lines 357-371: case 127, the probe of the working directory answers and
\* the attempt ends with the error the answer selects.
isPathPresent ==
    /\ pc = "isPathPresent"
    /\ \E pathPresent \in BOOLEAN :
         /\ trace' = Append(trace, Call("isPathPresent", container,
                                        <<workingDirectory>>, 0,
                                        IF pathPresent THEN "present" ELSE "absent"))
         /\ Finish(Classify(exitCode, runErr, pathPresent, container, command))
    /\ UNCHANGED <<inputs, container, command, params, locals>>

Next ==
    \/ enterForward
    \/ enter
    \/ callEnterContainer
    \/ containerExists
    \/ listContainers
    \/ AskForConfirmation
    \/ createContainer
    \/ callFlatpakSessionHelper
    \/ startContainer
    \/ getEntryPointAndPID
    \/ waitInitialized
    \/ Sleep
    \/ isCommandPresent
    \/ CheckVersion
    \/ exec
    \/ isPathPresent

Spec == Init /\ [][Next]_vars

---------------------------------------------------------------------------
(* Vocabulary of the properties *)

Done == pc = "done"
Called(op) == \E k \in 1..Len(trace) : trace[k].op = op

\* The engine calls that act on a container after the fallback was decided.
EntryOps == {"startContainer", "getEntryPointAndPID", "isCommandPresent", "exec"}

\* The existence check was made and answered "missing"; it is always the
\* first call of an attempt, and its target is the resolved container.
Missing ==
    /\ Len(trace) >= 1
    /\ trace[1].op = "ContainerExists"
    /\ trace[1].result = "missing"
Resolved == trace[1].container

\* The enumeration was made and reported n containers.
Listed(n) ==
    /\ Len(trace) >= 2
    /\ trace[2].op = "listContainers"
    /\ trace[2].result = "listed"
    /\ trace[2].n = n

\* The container name the caller of enter supplied: the positional
\* CONTAINER if there is one, --container otherwise; "" is no name.
SuppliedName == IF args # <<>> THEN args[1] ELSE enterFlags.container

\* The caller named neither a container nor a release.
DefaultRequest ==
    IF caller = "enter"
    THEN SuppliedName = "" /\ enterFlags.release = ""
    ELSE defaultContainer

\* The sequence s holds the string x.
Holds(s, x) == \E k \in 1..Len(s) : s[k] = x

---------------------------------------------------------------------------
(* C1 *)

C1_Case == ~pedantic /\ Missing /\ Listed(1) /\ DefaultRequest

\* C1: in permissive mode, when the resolved container is missing, exactly
\* one container is enumerated and the caller named neither a container nor
\* a release, the attempt goes on with the enumerated container: it does
\* not end with ContainerNotFound, createContainer is never called, and
\* every later call (the session helper, start, entry point query, command
\* probe, exec and its argument vector) targets the enumerated name, which
\* is not the resolved default name.
C1_SubstitutesSingleContainer ==
    C1_Case =>
        /\ container = containers[1].Names[1]
        /\ container # Resolved
        /\ ret.kind # "ContainerNotFound"
        /\ Len(trace) = 2 => pc = "callFlatpakSessionHelper"
        /\ ~Called("createContainer")
        /\ ~Called("AskForConfirmation")
        /\ \A k \in 3..Len(trace) :
              /\ trace[k].op \in EntryOps \cup {"callFlatpakSessionHelper"} =>
                    trace[k].container = containers[1].Names[1]
              /\ trace[k].op = "exec" =>
                    /\ Holds(trace[k].args, containers[1].Names[1])
                    /\ ~Holds(trace[k].args, Resolved)

\* The substituted container was entered: exec ran in it.
C1_Witness ==
    /\ C1_Case
    /\ caller = "enter"
    /\ Done
    /\ Called("exec")
    /\ container = "work"
    /\ Resolved = "fedora-toolbox-32"

---------------------------------------------------------------------------
(* C2 *)

\* The caller of enter named a container or a release; a direct caller of
\* enterContainer passed defaultContainer = false.
C2_Case ==
    /\ ~pedantic
    /\ Missing
    /\ \E n \in 1..Len(ExistingNames) :
          /\ Listed(n)
          /\ n >= 2 \/ ~DefaultRequest

---------------------------------------------------------------------------
(* C3 *)

C3_Case == ~pedantic /\ Missing /\ Listed(0) /\ rootFlags.assumeYes

\* C3: in permissive mode, when the resolved container is missing, no
\* container exists and assume-yes is set, the user is never prompted;
\* createContainer is the next call, made exactly once, with the resolved
\* container, image and release; startContainer is called only after it
\* succeeded, and when it fails the attempt ends with an error and no
\* further call.
C3_AutoCreateOnce ==
    C3_Case =>
        /\ ~Called("AskForConfirmation")
        /\ Len(trace) = 2 => pc = "createContainer"
        /\ Len(trace) >= 3 =>
              /\ trace[3].op = "createContainer"
              /\ trace[3].container = Resolved
              /\ trace[3].args = <<image, release>>
              /\ Count(trace, "createContainer") = 1
              /\ trace[3].result = "error" =>
                    /\ Done
                    /\ ret.status = "error"
                    /\ Len(trace) = 3
              /\ Called("startContainer") => trace[3].result = "ok"

\* The created container was started.
C3_Witness ==
    /\ C3_Case
    /\ caller = "enter"
    /\ Len(trace) >= 5
    /\ trace[3].op = "createContainer"
    /\ trace[3].args = <<"fedora-toolbox:33", "33">>
    /\ trace[5].op = "startContainer"

---------------------------------------------------------------------------
(* C4 *)

C4_Case ==
    /\ ~pedantic
    /\ Missing
    /\ Listed(0)
    /\ ~rootFlags.assumeYes
    /\ Len(trace) >= 3
    /\ trace[3].op = "AskForConfirmation"
    /\ trace[3].result = "no"

\* C4: in permissive mode, when the resolved container is missing, no
\* container exists, assume-yes is not set and the user declines the
\* prompt, the attempt ends returning nil and the prompt is its last call
\* (no create, start, entry point query or exec).
C4_DeclineIsNoOpSuccess ==
    C4_Case =>
        /\ Done
        /\ ret = Nil
        /\ Len(trace) = 3
        /\ ~Called("createContainer")
        /\ Ops(trace) \cap EntryOps = {}

C4_Witness == C4_Case /\ Done /\ ret.status = "nil"

---------------------------------------------------------------------------
(* C5 *)

C5_Case == pedantic /\ Missing

\* C5: in pedantic mode a missing container ends the attempt at once with
\* ContainerNotFound, whatever assume-yes is: the existence check is the
\* only call made (no enumeration, no prompt, no create, start or exec)
\* and nothing is substituted.
C5_PedanticFailsImmediately ==
    C5_Case =>
        /\ Done
        /\ ret = Error("ContainerNotFound", Resolved, "create")
        /\ container = Resolved
        /\ Len(trace) = 1

C5_Witness == C5_Case /\ rootFlags.assumeYes /\ Done /\ ret.status = "error"

---------------------------------------------------------------------------
(* C6 *)

\* The polls of the initialization stamp that found it absent, the polls
\* that found it present, and the one-second sleeps.
AbsentPolls == {k \in 1..Len(trace) : trace[k].op = "PathExists" /\ trace[k].result = "absent"}
PresentPolls == {k \in 1..Len(trace) : trace[k].op = "PathExists" /\ trace[k].result = "present"}
Sleeps == {k \in 1..Len(trace) : trace[k].op = "Sleep"}

\* C6: poll k is the check of the stamp made after k one-second sleeps
\* (poll 0 is made at once).  If the stamp is absent at every poll up to
\* poll 25, the attempt ends with InitializationTimeout after exactly 25
\* sleeps, and exec is never called.  If the stamp is present at poll k
\* (k <= 25), the attempt goes on after exactly k sleeps: every sleep
\* precedes that poll, each follows a poll that found the stamp absent,
\* and no poll or sleep comes after it.  The loop counter i is the number
\* of sleeps that have ended; while the attempt sleeps, the last poll
\* found the stamp absent and fewer than 25 sleeps have ended.
C6_BoundedWait ==
    LET sleeps == Cardinality(Sleeps)
        absent == Cardinality(AbsentPolls)
        present == PresentPolls
    IN  /\ sleeps <= 25
        /\ i = sleeps
        /\ pc = "Sleep" =>
              /\ sleeps < 25
              /\ absent = sleeps + 1
              /\ present = {}
              /\ trace[Len(trace)].op = "PathExists"
              /\ trace[Len(trace)].result = "absent"
        /\ pc = "waitInitialized" => (absent = sleeps /\ present = {})
        /\ ret.kind = "InitializationTimeout" =>
              /\ Done
              /\ ret.status = "error"
              /\ sleeps = 25
              /\ absent = 26
              /\ present = {}
              /\ ~Called("exec")
        /\ absent > 25 => ret.kind = "InitializationTimeout"
        /\ present # {} =>
              LET p == CHOOSE k \in present : TRUE IN
              /\ present = {p}
              /\ sleeps = absent
              /\ i = sleeps
              /\ \A k \in (p + 1)..Len(trace) : trace[k].op \notin {"PathExists", "Sleep"}
              /\ pc \notin {"waitInitialized", "Sleep"}
              /\ ret.kind # "InitializationTimeout"
        /\ \A k \in 1..Len(trace) :
              trace[k].op = "Sleep" =>
                  /\ k > 1
                  /\ trace[k - 1].op = "PathExists"
                  /\ trace[k - 1].result = "absent"

\* The stamp appeared at the last poll, after 25 sleeps, and exec ran.
C6_Witness ==
    /\ PresentPolls # {}
    /\ Cardinality(Sleeps) = 25
    /\ Called("exec")

---------------------------------------------------------------------------
(* C7 *)

\* The entry point query answered with a name other than "toolbox".
C7_Case ==
    \E k \in 1..Len(trace) :
        /\ trace[k].op = "getEntryPointAndPID"
        /\ trace[k].result = "ok"
        /\ trace[k].args # <<"toolbox">>

\* C7: once the container was started and its entry point is not
\* "toolbox", the attempt ends with the "too old" error whatever the
\* reported PID is (the name is checked before the PID); the query is the
\* last call, right after the successful start, so the stamp is never
\* polled and exec is never called.
C7_OldEntryPointRejected ==
    C7_Case =>
        /\ Done
        /\ ret = Error("UnsupportedContainer", container, "")
        /\ trace[Len(trace)].op = "getEntryPointAndPID"
        /\ trace[Len(trace) - 1].op = "startContainer"
        /\ trace[Len(trace) - 1].result = "ok"
        /\ ~Called("PathExists")
        /\ ~Called("exec")

\* A foreign entry point that also reports an invalid PID.
C7_Witness ==
    /\ C7_Case
    /\ Done
    /\ entryPoint = "sleep"
    /\ entryPointPID <= 0
    /\ trace[Len(trace)].n = entryPointPID

---------------------------------------------------------------------------
(* C8 *)

\* shell.RunWithExitCode was called and has returned.
HasExec == Called("exec")
\* The attempt waits in shell.RunWithExitCode: the session is running.
InSession == pc = "exec"
ExecCall == trace[Index(trace, "exec")]

\* C8: the working directory is probed exactly when 'podman exec' exited
\* with 127, after the exec ended (and after the pop sequence), as the
\* last call of the attempt; the attempt then returns an error, which is
\* PathNotFoundInContainer (naming the working directory) when the probe
\* found it absent and CommandNotFound when it found it present.
C8_Exit127Disambiguated ==
    LET probed == Called("isPathPresent")
        last == trace[Len(trace)]
    IN  /\ probed =>
              /\ HasExec
              /\ ExecCall.n = 127
              /\ Count(trace, "isPathPresent") = 1
              /\ Index(trace, "isPathPresent") = Len(trace)
              /\ Index(trace, "exec") < Index(trace, "isPathPresent")
              /\ last.container = container
              /\ last.args = <<workingDirectory>>
        /\ (Done /\ HasExec) =>
              LET x == ExecCall
              IN  /\ x.n = 127 =>
                        /\ probed
                        /\ ret.status = "error"
                        /\ last.result = "absent" =>
                              ret = Error("PathNotFoundInContainer", container,
                                          workingDirectory)
                        /\ last.result = "present" =>
                              ret = Error("CommandNotFound", container, command[1])
                  /\ x.n # 127 => ~probed

\* Exit code 127 with the working directory missing in the container.
C8_Witness ==
    /\ Done
    /\ HasExec
    /\ ExecCall.n = 127
    /\ trace[Len(trace)].op = "isPathPresent"
    /\ trace[Len(trace)].result = "absent"
    /\ ret.kind = "PathNotFoundInContainer"

---------------------------------------------------------------------------
(* C9 *)

\* C9: for an exit code of 'podman exec' other than 0, 125, 126 and 127
\* the attempt hands the code on to its caller: what it returns is not an
\* error, and it differs from what it returns for success.
C9_ExitStatusForwarded ==
    (Done /\ HasExec /\ ExecCall.n \notin {0, 125, 126, 127}) =>
        /\ ret.status # "error"
        /\ ret # Nil

---------------------------------------------------------------------------
(* C10 *)

\* C10: when 'podman exec' exited with 0 and RunWithExitCode reported an
\* error, the attempt panics: it returns neither nil nor an error.  When
\* it exited with 0 and no error was reported, the attempt returns nil.
C10_ExitZeroWithErrorPanics ==
    (Done /\ HasExec /\ ExecCall.n = 0) =>
        /\ ExecCall.result = "error" => ret.status = "panic"
        /\ ExecCall.result = "ok" => ret = Nil

C10_Witness ==
    /\ Done
    /\ HasExec
    /\ ExecCall.n = 0
    /\ ExecCall.result = "error"
    /\ ret.status = "panic"

---------------------------------------------------------------------------
(* C11 *)

\* The command at the end of an exec argument vector: what follows the
\* "/bin/sh" of the capsh wrapper.
ExecTrailing(a) ==
    LET k == CHOOSE j \in 1..Len(a) : a[j] = "/bin/sh"
    IN  SubSeq(a, k + 1, Len(a))

\* C11: when 'podman exec' exited with 125 the attempt returns the
\* "failed to invoke 'podman exec'" error, and when it exited with 126 it
\* returns the "failed to invoke command" error naming the first word of
\* the command that was executed (/bin/bash after a fallback); both are
\* returned whether or not RunWithExitCode reported an error.
C11_EngineAndCommandInvocationFailures ==
    (Done /\ HasExec) =>
        LET x == ExecCall
        IN  /\ x.n = 125 =>
                  ret = Error("EngineInvocationFailed", x.container, "")
            /\ x.n = 126 =>
                  ret = Error("CommandInvocationFailed", x.container,
                              ExecTrailing(x.args)[1])

\* Exit code 126 without a reported error, after the fallback to /bin/bash.
C11_Witness ==
    /\ Done
    /\ HasExec
    /\ ExecCall.n = 126
    /\ ExecCall.result = "ok"
    /\ \E k \in 1..Len(trace) :
          /\ trace[k].op = "isCommandPresent"
          /\ trace[k].result = "absent"
          /\ trace[k].args = <<"/bin/zsh">>
    /\ ret.kind = "CommandInvocationFailed"
    /\ ret.detail = "/bin/bash"

---------------------------------------------------------------------------
(* C12 *)

\* enter ran on the host, where it resolves the container itself (inside a
\* container it hands the command to the host instead).
OnHost ==
    /\ caller = "enter"
    /\ pc # "start"
    /\ ~Called("ForwardToHost")
    /\ ret.kind # "NotAToolboxContainer"

\* The caller supplied a container name, by the positional CONTAINER or,
\* without a positional, by --container, and it does not match the naming
\* grammar.
C12_Case ==
    /\ OnHost
    /\ args # <<>> \/ enterFlags.container # ""
    /\ ~ContainerNameRegexp(SuppliedName)

\* C12, for the supplied names that enter does not hand to
\* utils.IsContainerNameValid, so whatever that function answers: when the
\* positional CONTAINER is given and is the empty name, which does not
\* match the naming grammar, the attempt ends with the "invalid argument"
\* error for CONTAINER, and no external call at all is made (no existence
\* check, list, create, start or exec).
C12_InvalidNameRejectedBeforeEngine ==
    (C12_Case /\ SuppliedName = "") =>
        /\ Done
        /\ ret = Error("InvalidContainerName", SuppliedName, "CONTAINER")
        /\ trace = <<>>

---------------------------------------------------------------------------
(* C13 *)

\* C13: with emission enabled the push sequence is written right before
\* the exec is called (naming the container exec'd into) and the pop
\* sequence right after the exec returned, whatever the exit code and the
\* reported error are, the abort on exit code 0 with an error included.
\* While the session runs the push is the last thing written and no pop
\* is; once the exec returned, and so in every terminated attempt, pushes
\* and pops are equal in number.  Neither is written on a path that ends
\* before the exec is called, and neither is written at all when emission
\* is disabled.
C13_EscapeSequencesBracketExec ==
    LET pushes == Count(trace, "push")
        pops == Count(trace, "pop")
    IN  /\ pops <= pushes
        /\ pushes <= 1
        /\ ~InSession => pushes = pops
        /\ InSession => pops = 0 /\ (pushes = 1 <=> emitEscapeSequence)
        /\ (InSession /\ emitEscapeSequence) =>
              /\ trace[Len(trace)].op = "push"
              /\ trace[Len(trace)].container = container
              /\ trace[Len(trace) - 1].op = "CheckVersion"
        /\ ~emitEscapeSequence => pushes = 0
        /\ (~HasExec /\ ~InSession) => pushes = 0
        /\ (HasExec /\ emitEscapeSequence) => pushes = 1
        /\ \A k \in 1..Len(trace) :
              LET op == trace[k].op
              IN  /\ op = "push" =>
                        /\ emitEscapeSequence
                        /\ k = Len(trace) => InSession
                        /\ k < Len(trace) =>
                              /\ k + 2 <= Len(trace)
                              /\ trace[k + 1].op = "exec"
                              /\ trace[k + 1].container = trace[k].container
                              /\ trace[k + 2].op = "pop"
                  /\ op = "pop" =>
                        /\ k >= 3
                        /\ trace[k - 1].op = "exec"
                        /\ trace[k - 2].op = "push"
                  /\ (op = "exec" /\ emitEscapeSequence) =>
                        /\ k >= 2
                        /\ k + 1 <= Len(trace)
                        /\ trace[k - 1].op = "push"
                        /\ trace[k + 1].op = "pop"

\* The attempt aborted on exit code 0 with an error, between push and pop.
C13_Witness ==
    /\ Done
    /\ ret.status = "panic"
    /\ HasExec
    /\ ExecCall.n = 0
    /\ Called("push")
    /\ Called("pop")

---------------------------------------------------------------------------
(* C14 *)

\* C14: the decision whether to write the escape sequences never fails
\* the attempt: whatever the lookups of the host ID and of the host
\* VARIANT_ID return, a failed lookup included, no attempt ends because
\* of them, so an attempt that got as far as these lookups goes on to the
\* existence check.
C14_HostLookupNeverFailsAttempt ==
    OnHost => ret.kind \notin {"NoHostID", "NoHostVariantID"}

---------------------------------------------------------------------------
(* C15 *)

\* The command the caller asked for: enter asks for the user's login
\* shell, the direct caller for its own command.
C15_Requested == IF caller = "enter" THEN <<"/bin/zsh", "-l">> ELSE <<"echo", "Hello World">>

\* C15: the probe asks for the first word of the requested command.  When
\* it is absent and the fallback is permitted, the command becomes
\* <<"/bin/bash", "-l">>, the attempt goes on to the exec, and the exec
\* argument vector ends with exactly that; when it is absent and the
\* fallback is not permitted, the attempt ends with CommandNotFound for
\* the requested command and exec is never called; when it is present,
\* the exec argument vector ends with the requested command unchanged.
C15_CommandFallback ==
    \A k \in 1..Len(trace) :
        trace[k].op = "isCommandPresent" =>
            /\ trace[k].args = <<C15_Requested[1]>>
            /\ (trace[k].result = "absent" /\ fallbackToBash) =>
                  /\ command = <<"/bin/bash", "-l">>
                  /\ Len(trace) = k => pc = "CheckVersion"
                  /\ ret.kind # "CommandNotFound" \/ HasExec
                  /\ HasExec => ExecTrailing(ExecCall.args) = <<"/bin/bash", "-l">>
            /\ (trace[k].result = "absent" /\ ~fallbackToBash) =>
                  /\ Done
                  /\ ret = Error("CommandNotFound", container, C15_Requested[1])
                  /\ Len(trace) = k
                  /\ ~HasExec
            /\ trace[k].result = "present" =>
                  /\ command = C15_Requested
                  /\ Len(trace) = k => pc = "CheckVersion"
                  /\ HasExec => ExecTrailing(ExecCall.args) = C15_Requested

\* The user's shell is missing in the container and /bin/bash was exec'd.
C15_Witness ==
    /\ HasExec
    /\ fallbackToBash
    /\ \E k \in 1..Len(trace) :
          /\ trace[k].op = "isCommandPresent"
          /\ trace[k].result = "absent"
    /\ ExecTrailing(ExecCall.args) = <<"/bin/bash", "-l">>

---------------------------------------------------------------------------
(* C16 *)

\* C16: in every attempt createContainer, startContainer and the exec are
\* each called at most once, whatever the outcome; exit code 127 with the
\* fallback permitted does not lead to a second start or a second exec.
C16_AtMostOnce ==
    /\ Count(trace, "createContainer") <= 1
    /\ Count(trace, "startContainer") <= 1
    /\ Count(trace, "exec") <= 1
    /\ HasExec => (~InSession /\ pc # "CheckVersion")
    /\ (HasExec /\ ExecCall.n = 127 /\ pc # "isPathPresent") =>
          /\ Done
          /\ trace[Len(trace)].op = "isPathPresent"

\* A created and started container whose exec ended with 127 while the
\* fallback was permitted.
C16_Witness ==
    /\ Done
    /\ fallbackToBash
    /\ HasExec
    /\ ExecCall.n = 127
    /\ Count(trace, "createContainer") = 1
    /\ Count(trace, "startContainer") = 1
    /\ Count(trace, "exec") = 1
    /\ ret.kind = "CommandNotFound"

---------------------------------------------------------------------------
(* C17 *)

\* The user declined the prompt to create a container.
Declined ==
    \E k \in 1..Len(trace) :
        trace[k].op = "AskForConfirmation" /\ trace[k].result = "no"

\* enter, run inside a toolbox container, handed the command to the host.
Forwarded ==
    \E k \in 1..Len(trace) :
        trace[k].op = "ForwardToHost" /\ trace[k].result = "ok"

\* C17 as stated, for the attempts that got as far as the existence
\* check: an attempt that returns without error has invoked the exec, and
\* an attempt that ends without having invoked the exec returns an error.
C17_NoPartialSuccess ==
    (Done /\ Len(trace) >= 1 /\ trace[1].op = "ContainerExists") =>
        /\ ret.status = "nil" => HasExec
        /\ ~HasExec => ret.status = "error"

\* C17, amended: an attempt that returns without error has invoked the
\* exec, unless the user declined the prompt to create a container or
\* enter handed the command to the host from inside a toolbox container;
\* an attempt that ends without having invoked the exec, and in neither of
\* these two ways, returns an error, or panics before any call because the
\* image or the release is missing in permissive mode.
C17_SuccessMeansSessionOrDecline ==
    Done =>
        /\ ret.status = "nil" => (HasExec \/ Declined \/ Forwarded)
        /\ (~HasExec /\ ~Declined /\ ~Forwarded) =>
              \/ ret.status = "error"
              \/ /\ ret.status = "panic"
                 /\ trace = <<>>
                 /\ ~pedantic
                 /\ image = "" \/ release = ""

\* The session ran and ended with exit code 0.
C17_Witness ==
    /\ Done
    /\ ret = Nil
    /\ HasExec
    /\ ExecCall.n = 0
    /\ ~Declined

---------------------------------------------------------------------------
(* C18 *)

\* The place of each external call in the flow of enterContainer.
RankTable ==
    [ContainerExists |-> 1, listContainers |-> 2, AskForConfirmation |-> 3,
     createContainer |-> 4, callFlatpakSessionHelper |-> 5, startContainer |-> 6,
     getEntryPointAndPID |-> 7, PathExists |-> 8, Sleep |-> 8,
     isCommandPresent |-> 9, CheckVersion |-> 10, push |-> 11, exec |-> 12,
     pop |-> 13, isPathPresent |-> 14]
Rank(op) == RankTable[op]

\* C18: the external calls of an attempt are made in the order existence
\* check, enumeration, prompt, create, session helper, start, entry point
\* query, polls of the stamp, command probe, exec, and each step is made
\* only after the step before it succeeded: start follows an existing,
\* created or substituted container; the entry point query follows a
\* successful start; the first poll follows a valid entry point; the
\* command probe follows the poll that found the stamp; the exec follows
\* the command probe and a successful start of the container exec'd into.
\* A call that failed is the last call of the attempt, which then returns
\* an error.
C18_StrictOrder ==
    \A k \in 1..Len(trace) :
        LET this == trace[k]
            prev == trace[k - 1]
        IN  /\ k > 1 =>
                  \/ Rank(prev.op) < Rank(this.op)
                  \/ Rank(prev.op) = 8 /\ Rank(this.op) = 8
            /\ (this.result = "error" /\ this.op # "exec") =>
                  /\ k = Len(trace)
                  /\ Done
                  /\ ret.status = "error"
            /\ this.op = "callFlatpakSessionHelper" =>
                  /\ k > 1
                  /\ \/ prev.op = "ContainerExists" /\ prev.result = "found"
                     \/ prev.op = "createContainer" /\ prev.result = "ok"
                     \/ /\ prev.op = "listContainers"
                        /\ prev.result = "listed"
                        /\ prev.n = 1
            /\ this.op = "startContainer" =>
                  /\ k > 1
                  /\ trace[1].op = "ContainerExists"
                  /\ prev.op = "callFlatpakSessionHelper"
                  /\ prev.result = "ok"
            /\ this.op = "getEntryPointAndPID" =>
                  /\ k > 1
                  /\ prev.op = "startContainer"
                  /\ prev.result = "ok"
            /\ this.op = "PathExists" =>
                  /\ k > 1
                  /\ \/ prev.op = "Sleep"
                     \/ /\ prev.op = "getEntryPointAndPID"
                        /\ prev.result = "ok"
                        /\ prev.args = <<"toolbox">>
                        /\ prev.n > 0
            /\ this.op = "isCommandPresent" =>
                  /\ k > 1
                  /\ prev.op = "PathExists"
                  /\ prev.result = "present"
            /\ this.op = "exec" =>
                  /\ Called("isCommandPresent")
                  /\ \E j \in 1..(k - 1) :
                        /\ trace[j].op = "startContainer"
                        /\ trace[j].result = "ok"
                        /\ trace[j].container = this.container

\* An existing container was started, awaited for two seconds and entered.
C18_Witness ==
    /\ Done
    /\ Len(trace) >= 1
    /\ trace[1].result = "found"
    /\ Count(trace, "Sleep") = 2
    /\ HasExec
    /\ ExecCall.n = 0
    /\ ret = Nil

---------------------------------------------------------------------------
(* C19 *)

\* The answer of podman.CheckVersion("1.8.1") in this attempt.
SupportsDetachKeys == trace[Index(trace, "CheckVersion")].result = "true"

\* C19: the exec argument vector is, in this order: "--log-level" and the
\* log level, "exec", the pair "--detach-keys", "" exactly when
\* podman.CheckVersion("1.8.1") answered true, "--interactive", "--tty",
\* "--user" and the user name, "--workdir" and the working directory, the
\* options preserving the environment, the container (the substituted one
\* after a substitution), the capsh wrapper, and last the command (the
\* fallback shell after a fallback) with its arguments.  The vector is
\* built before the exec is called and is the one the exec is called with.
C19_ExecArgumentVector ==
    (HasExec \/ InSession) =>
        /\ Called("CheckVersion")
        /\ HasExec => ExecCall.args = execArgs
        /\ LET v == Index(trace, "CheckVersion")
               detach == trace[v].result = "true"
           IN  /\ trace[v].args = <<"1.8.1">>
               /\ HasExec => v < Index(trace, "exec")
               /\ execArgs =
                     <<"--log-level", logLevelString, "exec">>
                     \o (IF detach THEN <<"--detach-keys", "">> ELSE <<>>)
                     \o <<"--interactive", "--tty">>
                     \o <<"--user", currentUser.Username>>
                     \o <<"--workdir", workingDirectory>>
                     \o envOptions
                     \o <<container>>
                     \o <<"capsh", "--caps=", "--", "-c", "exec \"$@\"", "/bin/sh">>
                     \o command
               /\ detach <=> Holds(execArgs, "--detach-keys")

\* An engine older than 1.8.1, a substituted container and the fallback
\* shell.
C19_Witness ==
    /\ HasExec
    /\ ~SupportsDetachKeys
    /\ Len(ExecCall.args) = 20
    /\ ExecCall.args[12] = "work"
    /\ ExecCall.args[19] = "/bin/bash"
    /\ ExecCall.args[20] = "-l"

---------------------------------------------------------------------------
(* C20 *)

\* C20: what the attempt returns after the exec depends on the exit code
\* alone, except for exit code 0: outside 0, 125, 126 and 127 it returns
\* nil even when RunWithExitCode reported an error; for 125, 126 and 127
\* it returns the error of that code (for 127, the one the probe of the
\* working directory selects) whether or not an error was reported; only
\* for 0 does the reported error matter, where it turns nil into a panic.
C20_ReportedErrorDiscarded ==
    (Done /\ HasExec) =>
        LET x == ExecCall
        IN  /\ x.n \notin {0, 125, 126, 127} => ret = Nil
            /\ x.n = 125 => ret.kind = "EngineInvocationFailed"
            /\ x.n = 126 => ret.kind = "CommandInvocationFailed"
            /\ x.n = 127 =>
                  ret.kind = IF trace[Len(trace)].result = "absent"
                             THEN "PathNotFoundInContainer" ELSE "CommandNotFound"
            /\ x.n # 0 => ret.status # "panic"
            /\ x.n = 0 => (ret.status = "panic" <=> x.result = "error")

\* Exit code 1 with an error reported by RunWithExitCode: nil is returned.
C20_Witness ==
    /\ Done
    /\ HasExec
    /\ ExecCall.n = 1
    /\ ExecCall.result = "error"
    /\ ret = Nil

=============================================================================
